---- MODULE Spec2Model ----
(***************************************************************************)
(* Model of the WebRTC signaling relay (tools/webrtc-relay/server.py):     *)
(* one asyncio handler `relay` per accepted websocket, the shared set      *)
(* `clients`, the health HTTP listener on its own thread, and `main`.      *)
(*                                                                         *)
(* asyncio is cooperative: a handler runs without interleaving between two *)
(* awaits.  The handler's suspension points are `async for` (pc = "recv")  *)
(* and `await client.send(message)` (pc = "send"); every action below is   *)
(* the code executed between two suspension points.                        *)
(***************************************************************************)
EXTENDS Integers, Sequences, FiniteSets, TLC

\* ---- bounds ----
NumConn == 3
MaxMsgs == 2
MaxFrames == 5
MaxStride == 3
MaxSamples == 3
MaxIps == 3
NumReq == 2

Conn == 1..NumConn
None == 0

\* ---- program constants ----
HealthRoute == "/health"
\* Request targets (`self.path`, query string included) a probe may send.
Paths == {"/health", "/health?x=1", "/"}

\* Exception classes a failed `client.send` / `async for` can raise.
ClosureErrors == {"ConnectionClosed", "ConnectionResetError", "OSError"}
ExceptionClasses == ClosureErrors \cup {"RuntimeError"}

VARIABLES
    clients,     \* the module-level set `clients`
    pc,          \* per connection: position of its `relay` coroutine
    transport,   \* per connection: "open" | "closed"
    stalled,     \* per connection: peer's outbound buffer is full, send() suspends
    cur,         \* per connection: `client` of the suspended `await client.send`
    remaining,   \* per connection: rest of the `tuple(clients)` iteration
    sent,        \* per connection: number of messages received from its peer
    inbox,       \* per connection: messages written to its peer, in order
    snapAt,      \* history: registry membership when the current snapshot was taken
    failed,      \* history: recipients of the current broadcast whose send raised
    mainPc,      \* position of `main`
    healthPc,    \* state of the health thread
    probe,       \* one HTTP request to the health listener
    lastErr,     \* history: the last exception raised in a handler, and its fate
    video,       \* one POST /detect-video request of the detection service
    net,         \* one use of the detection service's LAN address helpers
    script,      \* the relay script file and the GET /webrtc/relay-info requests
    twin         \* the standalone relay and the embedded relay script, side by side

vars == <<clients, pc, transport, stalled, cur, remaining, sent, inbox,
          snapAt, failed, mainPc, healthPc, probe, lastErr, video, net, script, twin>>

\* The variables of the detection service other than `video`.
aux == <<net, script, twin>>

relayVars == <<clients, pc, transport, stalled, cur, remaining, sent, inbox,
               snapAt, failed>>

\* ---- helpers ----
RECURSIVE SumOver(_, _)
SumOver(f, S) == IF S = {} THEN 0
                 ELSE LET x == CHOOSE y \in S : TRUE IN f[x] + SumOver(f, S \ {x})

TotalSent == SumOver(sent, Conn)

Range(s) == {s[i] : i \in 1..Len(s)}

\* The message a handler is fanning out (or fanned out last).
CurMsg(s) == <<s, sent[s]>>

\* Peers the relay has written message m to.
Delivered(m) == {r \in Conn : m \in Range(inbox[r])}

\* Recipients the current broadcast of s has attempted so far.
Attempted(s) == Delivered(CurMsg(s)) \cup failed[s]
                  \cup (IF pc[s] = "send" THEN {cur[s]} ELSE {})

\* ---- the registry ----
\* clients.add(websocket)
Register(cl, c) == cl \cup {c}

DiscardNoRemove(cl, c) == [set |-> cl, raised |-> FALSE]

DiscardOrRaise(cl, c) ==
    IF c \in cl THEN [set |-> cl \ {c}, raised |-> FALSE]
                ELSE [set |-> cl, raised |-> TRUE]

\* clients.discard(websocket): removes the element if present, never raises.
Discard(cl, c) ==
    IF c \in cl THEN [set |-> cl \ {c}, raised |-> FALSE]
                ELSE [set |-> cl, raised |-> FALSE]

\* tuple(clients)
Snapshot(cl) == cl

RecipientsNoSkip(snap, s) == snap

\* `if client is websocket: continue`
Recipients(snap, s) == snap \ {s}

PendingLive(s) == (clients \ {s}) \ Attempted(s)

\* What the `for client in tuple(clients)` iterator still has to yield.
Pending(s) == remaining[s]

SuppressedNone(exc) == FALSE

\* contextlib.suppress(Exception)
Suppressed(exc) == exc \in ExceptionClasses

\* except (ConnectionClosed, ConnectionResetError, OSError)
Caught(exc) == exc \in ClosureErrors

IsOpen(c) == transport[c] = "open"

\* ---- lifecycle of a connection, read off the code's state ----
State(c) ==
    IF pc[c] = "connecting" THEN "Connecting"
    ELSE IF pc[c] = "done" THEN "Closed"
    ELSE IF IsOpen(c) THEN "Open"
    ELSE "Closing"

\* No exception has been raised yet.
NoErr == [conn |-> None, at |-> "", exc |-> "", fate |-> ""]

\* No request to /detect-video is in progress.
VideoIdle ==
    [pc |-> "idle", stride |-> 0, maxFrames |-> 0, frames |-> 0,
     openable |-> FALSE, frameIndex |-> 0, sampled |-> <<>>,
     read |-> FALSE, tempExists |-> FALSE, tempPath |-> FALSE,
     predicts |-> 0, logged |-> 0,
     status |-> 0, error |-> "", frameCount |-> 0, sampledCount |-> 0]

\* ---- text ----
\* A str is a sequence of one-character strings.
DigitChars == <<"0", "1", "2", "3", "4", "5", "6", "7", "8", "9">>

\* ord(ch), for the characters that occur.
Ord(ch) ==
    CASE ch = " " -> 32 [] ch = "." -> 46 [] ch = "/" -> 47
      [] ch = "0" -> 48 [] ch = "1" -> 49 [] ch = "2" -> 50 [] ch = "3" -> 51
      [] ch = "4" -> 52 [] ch = "5" -> 53 [] ch = "6" -> 54 [] ch = "7" -> 55
      [] ch = "8" -> 56 [] ch = "9" -> 57 [] ch = ":" -> 58
      [] ch = "h" -> 104 [] ch = "p" -> 112 [] ch = "t" -> 116

\* str(n) of a natural number.
RECURSIVE Str(_)
Str(n) == IF n < 10 THEN <<DigitChars[n + 1]>>
          ELSE Str(n \div 10) \o <<DigitChars[(n % 10) + 1]>>

\* The dotted text of an IPv4 address given by its four octets.
Text(a) == Str(a[1]) \o <<".">> \o Str(a[2]) \o <<".">> \o Str(a[3]) \o <<".">> \o Str(a[4])

\* a < b on str: by code point, a proper prefix first.
RECURSIVE StrLess(_, _)
StrLess(a, b) ==
    IF b = <<>> THEN FALSE
    ELSE IF a = <<>> THEN TRUE
    ELSE IF Head(a) # Head(b) THEN Ord(Head(a)) < Ord(Head(b))
    ELSE StrLess(Tail(a), Tail(b))

\* a.startswith(p)
StartsWith(a, p) == Len(a) >= Len(p) /\ SubSeq(a, 1, Len(p)) = p

\* No request to the LAN address helpers is in progress.  NoIp is the
\* query parameter `ip` left out (None).
NoIp == <<"None">>
NetIdle ==
    [st |-> "idle", discovered |-> <<>>, op |-> "", ipParam |-> NoIp, port |-> 0,
     candidates |-> <<>>, ipCandidates |-> <<>>, selectedIp |-> <<>>,
     warning |-> FALSE, urls |-> <<>>]

\* No request to /webrtc/relay-info has been made and the script file has
\* not been written yet.
Req == 1..NumReq
NoResponse == [status |-> 0, relayExists |-> FALSE, relayCode |-> ""]
ScriptIdle ==
    [exists |-> FALSE, content |-> "",
     pc |-> [r \in Req |-> "idle"], resp |-> [r \in Req |-> NoResponse]]

\* A relay before its first connection, seen from the message plane: the
\* registry, each handler's position ("fanout": inside the for loop), the
\* targets its loop has still to try, the number of messages it received,
\* the delivery attempts made so far as <<sender, number, recipient>>, and
\* the connections whose handler ended by raising into the library.
PlaneIdle ==
    [clients |-> {}, pc |-> [c \in Conn |-> "connecting"],
     todo |-> [c \in Conn |-> {}], sent |-> [c \in Conn |-> 0],
     attempts |-> {}, escaped |-> {}]

Init ==
    /\ net = NetIdle
    /\ twin = [std |-> PlaneIdle, emb |-> PlaneIdle]
    /\ script = ScriptIdle
    /\ clients = {}
    /\ pc = [c \in Conn |-> "connecting"]
    /\ transport = [c \in Conn |-> "open"]
    /\ stalled = [c \in Conn |-> FALSE]
    /\ cur = [c \in Conn |-> None]
    /\ remaining = [c \in Conn |-> {}]
    /\ sent = [c \in Conn |-> 0]
    /\ inbox = [c \in Conn |-> <<>>]
    /\ snapAt = [c \in Conn |-> {}]
    /\ failed = [c \in Conn |-> {}]
    /\ mainPc = "init"
    /\ healthPc = "unstarted"
    /\ probe = [st |-> "idle", path |-> "", status |-> 0, ok |-> FALSE, error |-> ""]
    /\ lastErr = NoErr
    /\ video = VideoIdle

ProcessAlive == mainPc # "aborted"

\* ---- main ----
\* health_thread.start(): the thread exists, its body has not run yet.
StartHealthThread ==
    /\ mainPc = "init"
    /\ mainPc' = "thread_started"
    /\ healthPc' = "starting"
    /\ UNCHANGED <<relayVars, probe, lastErr, video, aux>>

\* websockets.serve(...) binds port 8765 and the accept loop runs.
ServeRelay ==
    /\ mainPc = "thread_started"
    /\ mainPc' = "serving"
    /\ UNCHANGED <<relayVars, healthPc, probe, lastErr, video, aux>>

\* The bind of port 8765 fails: the exception leaves asyncio.run(main()).
ServeRelayFails ==
    /\ mainPc = "thread_started"
    /\ mainPc' = "aborted"
    /\ UNCHANGED <<relayVars, healthPc, probe, lastErr, video, aux>>

\* ---- the health thread ----
\* ThreadingHTTPServer(("0.0.0.0", HEALTH_PORT), HealthHandler); serve_forever()
HealthBind ==
    /\ ProcessAlive
    /\ healthPc = "starting"
    /\ healthPc' = "serving"
    /\ UNCHANGED <<relayVars, mainPc, probe, lastErr, video, aux>>

\* The bind of port 8766 raises inside the thread; only the thread ends.
HealthBindFails ==
    /\ ProcessAlive
    /\ healthPc = "starting"
    /\ healthPc' = "dead"
    /\ UNCHANGED <<relayVars, mainPc, probe, lastErr, video, aux>>

\* A client connects to the health listener and sends GET path.
ProbeRequest(path) ==
    /\ ProcessAlive
    /\ healthPc = "serving"
    /\ probe.st \in {"idle", "answered"}
    /\ probe' = [st |-> "pending", path |-> path, status |-> 0, ok |-> FALSE, error |-> ""]
    /\ UNCHANGED <<relayVars, mainPc, healthPc, lastErr, video, aux>>

DoGETLoadAware(path) ==
    IF path = HealthRoute /\ clients = {}
    THEN [status |-> 200, ok |-> TRUE, error |-> ""]
    ELSE [status |-> 404, ok |-> FALSE, error |-> "not_found"]

DoGETPrefix(path) ==
    IF path \in {"/health", "/health?x=1"}
    THEN [status |-> 200, ok |-> TRUE, error |-> ""]
    ELSE [status |-> 404, ok |-> FALSE, error |-> "not_found"]

\* HealthHandler.do_GET: `self.path == "/health"`, else 404.
DoGET(path) ==
    IF path = HealthRoute
    THEN [status |-> 200, ok |-> TRUE, error |-> ""]
    ELSE [status |-> 404, ok |-> FALSE, error |-> "not_found"]

HealthCanServeShared ==
    /\ healthPc = "serving"
    /\ \A c \in Conn : pc[c] # "send"

\* serve_forever() hands each request to its own thread; nothing of the
\* relay is read or locked.
HealthCanServe == healthPc = "serving"

HealthAnswer ==
    /\ ProcessAlive
    /\ HealthCanServe
    /\ probe.st = "pending"
    /\ LET r == DoGET(probe.path) IN
         probe' = [st |-> "answered", path |-> probe.path,
                   status |-> r.status, ok |-> r.ok, error |-> r.error]
    /\ UNCHANGED <<relayVars, mainPc, healthPc, lastErr, video, aux>>

\* ---- relay(websocket) ----
\* The handshake completed; the handler starts: clients.add(websocket).
\* Connections are numbered in the order they are accepted.
CanAcceptAgain(c) ==
    /\ pc[c] \in {"connecting", "done"}
    /\ \A d \in Conn : d < c => pc[d] # "connecting"

\* websockets.serve calls relay(websocket) once per accepted session: a
\* connection object is handed to the handler once and never again.
CanAccept(c) ==
    /\ pc[c] = "connecting"
    /\ \A d \in Conn : d < c => pc[d] # "connecting"

Accept(c) ==
    /\ mainPc = "serving"
    /\ CanAccept(c)
    /\ clients' = Register(clients, c)
    /\ pc' = [pc EXCEPT ![c] = "recv"]
    /\ UNCHANGED <<transport, stalled, cur, remaining, sent, inbox, snapAt,
                   failed, mainPc, healthPc, probe, lastErr, video, aux>>

RestKeepsTarget(todo, t) == todo

\* The iterator of `tuple(clients)` yields every element of the tuple once.
Rest(todo, t) == todo \ {t}

\* The loop body up to the next `await client.send(message)`, or back to
\* `async for` when the iterator is exhausted.
Advance(s, todo) ==
    IF todo = {}
    THEN /\ pc' = [pc EXCEPT ![s] = "recv"]
         /\ cur' = [cur EXCEPT ![s] = None]
         /\ remaining' = [remaining EXCEPT ![s] = {}]
    ELSE \E t \in todo :
         /\ pc' = [pc EXCEPT ![s] = "send"]
         /\ cur' = [cur EXCEPT ![s] = t]
         /\ remaining' = [remaining EXCEPT ![s] = Rest(todo, t)]

\* `async for message in websocket` yields a message; the snapshot is taken.
Recv(s) ==
    /\ mainPc = "serving"
    /\ pc[s] = "recv"
    /\ IsOpen(s)
    /\ TotalSent < MaxMsgs
    /\ sent' = [sent EXCEPT ![s] = @ + 1]
    /\ snapAt' = [snapAt EXCEPT ![s] = clients]
    /\ failed' = [failed EXCEPT ![s] = {}]
    /\ Advance(s, Recipients(Snapshot(clients), s))
    /\ UNCHANGED <<clients, transport, stalled, inbox, mainPc, healthPc, probe, lastErr, video, aux>>

PayloadTagged(m) == <<m[1], 0>>

\* client.send(message): the argument is the object `async for` yielded.
Payload(m) == m

EnqueueFront(q, m) == <<m>> \o q

\* Frames written to one connection reach its peer in the order written.
Enqueue(q, m) == Append(q, m)

\* `await client.send(message)` returns: the frame was written to the peer.
SendOk(s) ==
    /\ mainPc = "serving"
    /\ pc[s] = "send"
    /\ IsOpen(cur[s])
    /\ ~stalled[cur[s]]
    /\ inbox' = [inbox EXCEPT ![cur[s]] = Enqueue(@, Payload(CurMsg(s)))]
    /\ Advance(s, Pending(s))
    /\ UNCHANGED <<clients, transport, stalled, sent, snapAt, failed,
                   mainPc, healthPc, probe, lastErr, video, aux>>

AfterSuppressedSendPrunes(cl, t) == cl \ {t}

\* The body of `with contextlib.suppress(Exception)` is the send alone: a
\* send that raised leaves `clients` as it was.
AfterSuppressedSend(cl, t) == cl

\* `await client.send(message)` raises because the recipient's connection
\* is closed.  Suppressed: the loop goes on.  Otherwise the exception
\* leaves the loops, meets `except` and `finally`, and the handler ends.
SendFail(s) ==
    /\ mainPc = "serving"
    /\ pc[s] = "send"
    /\ ~IsOpen(cur[s])
    /\ \E exc \in ClosureErrors :
         IF Suppressed(exc)
         THEN /\ failed' = [failed EXCEPT ![s] = @ \cup {cur[s]}]
              /\ Advance(s, Pending(s))
              /\ clients' = AfterSuppressedSend(clients, cur[s])
         ELSE /\ failed' = [failed EXCEPT ![s] = @ \cup {cur[s]}]
              /\ clients' = Discard(clients, s).set
              /\ pc' = [pc EXCEPT ![s] = "done"]
              /\ cur' = [cur EXCEPT ![s] = None]
              /\ remaining' = [remaining EXCEPT ![s] = {}]
    /\ UNCHANGED <<transport, stalled, sent, inbox, snapAt, mainPc, healthPc, probe, lastErr, video, aux>>

\* `async for` ends (clean close) or raises (reset, ping timeout, ...):
\* `except` or propagation, then `finally: clients.discard(websocket)`.
HandlerExit(s) ==
    /\ mainPc = "serving"
    /\ pc[s] = "recv"
    /\ ~IsOpen(s)
    /\ clients' = Discard(clients, s).set
    /\ pc' = [pc EXCEPT ![s] = "done"]
    /\ snapAt' = [snapAt EXCEPT ![s] = {}]
    /\ failed' = [failed EXCEPT ![s] = {}]
    /\ UNCHANGED <<transport, stalled, cur, remaining, sent, inbox, mainPc,
                   healthPc, probe, lastErr, video, aux>>

\* ---- the peers and the network ----
\* The connection of c is lost: the library fails its reads and writes.
CloseTransport(c) ==
    /\ mainPc = "serving"
    /\ pc[c] \notin {"connecting", "done"}
    /\ IsOpen(c)
    /\ transport' = [transport EXCEPT ![c] = "closed"]
    /\ stalled' = [stalled EXCEPT ![c] = FALSE]
    /\ UNCHANGED <<clients, pc, cur, remaining, sent, inbox, snapAt, failed,
                   mainPc, healthPc, probe, lastErr, video, aux>>

\* The peer closes the websocket.
PeerDisconnect(c) ==
    /\ IsOpen(c)
    /\ CloseTransport(c)

\* The socket is reset or fails.
TransportError(c) ==
    /\ IsOpen(c)
    /\ CloseTransport(c)

\* ping_interval=20, ping_timeout=20: no pong in time, the library closes.
PingTimeout(c) ==
    /\ IsOpen(c)
    /\ CloseTransport(c)

\* The peer stops reading: its outbound buffer fills, send() to it suspends.
Stall(c) ==
    /\ mainPc = "serving"
    /\ pc[c] \notin {"connecting", "done"}
    /\ IsOpen(c)
    /\ ~stalled[c]
    /\ stalled' = [stalled EXCEPT ![c] = TRUE]
    /\ UNCHANGED <<clients, pc, transport, cur, remaining, sent, inbox, snapAt,
                   failed, mainPc, healthPc, probe, lastErr, video, aux>>

\* The peer reads again and the buffer drains.
Unstall(c) ==
    /\ mainPc = "serving"
    /\ stalled[c]
    /\ stalled' = [stalled EXCEPT ![c] = FALSE]
    /\ UNCHANGED <<clients, pc, transport, cur, remaining, sent, inbox, snapAt,
                   failed, mainPc, healthPc, probe, lastErr, video, aux>>

Next ==
    \/ StartHealthThread
    \/ ServeRelay
    \/ ServeRelayFails
    \/ HealthBind
    \/ HealthBindFails
    \/ \E path \in Paths : ProbeRequest(path)
    \/ HealthAnswer
    \/ \E c \in Conn : Accept(c)
    \/ \E c \in Conn : Recv(c)
    \/ \E c \in Conn : SendOk(c)
    \/ \E c \in Conn : SendFail(c)
    \/ \E c \in Conn : HandlerExit(c)
    \/ \E c \in Conn : PeerDisconnect(c)
    \/ \E c \in Conn : TransportError(c)
    \/ \E c \in Conn : PingTimeout(c)
    \/ \E c \in Conn : Stall(c)
    \/ \E c \in Conn : Unstall(c)

Spec == Init /\ [][Next]_vars

\* ---- exceptions the handler has to deal with ----
\* Spec follows the websockets library: `async for` and `send` raise only
\* when the connection is closed, and the close shows as HandlerExit and
\* SendFail.  The two actions below raise an exception of a given class at
\* the handler's two awaits and record what the code did with it.
FaultClasses == {"ConnectionResetError", "RuntimeError"}

ReachesFinallyCaughtOnly(exc) == Caught(exc)

\* `finally:` runs however the try block is left.
ReachesFinally(exc) == TRUE

\* What `try / except (ConnectionClosed, ConnectionResetError, OSError)`
\* does with an exception that reaches it.
Fate(exc) == IF Caught(exc) THEN "caught" ELSE "propagated"

\* The handler is left through except/finally: it ends, and the library
\* closes the connection of a handler that has returned or raised.
LeaveHandler(s, at, exc) ==
    /\ clients' = IF ReachesFinally(exc) THEN Discard(clients, s).set ELSE clients
    /\ pc' = [pc EXCEPT ![s] = "done"]
    /\ cur' = [cur EXCEPT ![s] = None]
    /\ remaining' = [remaining EXCEPT ![s] = {}]
    /\ transport' = [transport EXCEPT ![s] = "closed"]
    /\ stalled' = [stalled EXCEPT ![s] = FALSE]
    /\ snapAt' = [snapAt EXCEPT ![s] = {}]
    /\ failed' = [failed EXCEPT ![s] = {}]
    /\ lastErr' = [conn |-> s, at |-> at, exc |-> exc, fate |-> Fate(exc)]

\* `async for message in websocket` raises exc.
RecvRaises(s, exc) ==
    /\ mainPc = "serving"
    /\ pc[s] = "recv"
    /\ exc \in ClosureErrors => ~IsOpen(s)
    /\ LeaveHandler(s, "recv", exc)
    /\ UNCHANGED <<sent, inbox, mainPc, healthPc, probe, video, aux>>

\* `await client.send(message)` raises exc.
SendRaises(s, exc) ==
    /\ mainPc = "serving"
    /\ pc[s] = "send"
    /\ exc \in ClosureErrors => ~IsOpen(cur[s])
    /\ IF Suppressed(exc)
       THEN /\ failed' = [failed EXCEPT ![s] = @ \cup {cur[s]}]
            /\ Advance(s, Pending(s))
            /\ lastErr' = [conn |-> s, at |-> "send", exc |-> exc, fate |-> "suppressed"]
            /\ clients' = AfterSuppressedSend(clients, cur[s])
            /\ UNCHANGED <<transport, stalled, snapAt>>
       ELSE LeaveHandler(s, "send", exc)
    /\ UNCHANGED <<sent, inbox, mainPc, healthPc, probe, video, aux>>

FaultNext ==
    \/ Next
    \/ \E c \in Conn, exc \in FaultClasses : RecvRaises(c, exc)
    \/ \E c \in Conn, exc \in FaultClasses : SendRaises(c, exc)

FaultSpec == Init /\ [][FaultNext]_vars

\* ---- POST /detect-video ----
\* One request, held in the record `video`: its parameters, the uploaded
\* video (a number of frames, and whether OpenCV can open it), the handler's
\* position, what the handler has touched so far, and the response.
StrideValues == (0 - 1)..MaxStride
MaxFramesValues == (0 - 1)..MaxSamples
FrameCounts == 0..MaxFrames

ValidateMaxFramesFirst(stride, max_frames) ==
    IF max_frames < 1 THEN "max_frames must be >= 1"
    ELSE IF stride < 1 THEN "stride must be >= 1"
    ELSE ""

\* The two checks at the top of detect_video, in their order; "" when the
\* request passes.
Validate(stride, max_frames) ==
    IF stride < 1 THEN "stride must be >= 1"
    ELSE IF max_frames < 1 THEN "max_frames must be >= 1"
    ELSE ""

ShouldSampleUpTo(frame_index, stride, n, max_frames) ==
    frame_index % stride = 0 /\ n <= max_frames

\* should_sample = frame_index % stride == 0 and len(sampled) < max_frames
ShouldSample(frame_index, stride, n, max_frames) ==
    frame_index % stride = 0 /\ n < max_frames

\* finally: the temp file is unlinked when temp_path was assigned.
Unlinked(v) == IF v.tempPath THEN [v EXCEPT !.tempExists = FALSE] ELSE v

Respond(v, status, error) ==
    Unlinked([v EXCEPT !.pc = "responded", !.status = status, !.error = error])

VRequest(stride, max_frames, frames, openable) ==
    /\ video.pc = "idle"
    /\ video' = [video EXCEPT !.pc = "called", !.stride = stride,
                              !.maxFrames = max_frames, !.frames = frames,
                              !.openable = openable]
    /\ UNCHANGED <<relayVars, mainPc, healthPc, probe, lastErr, aux>>

VValidate ==
    /\ video.pc = "called"
    /\ LET err == Validate(video.stride, video.maxFrames) IN
         video' = IF err # ""
                  THEN [video EXCEPT !.pc = "responded", !.status = 400, !.error = err]
                  ELSE [video EXCEPT !.pc = "reading"]
    /\ UNCHANGED <<relayVars, mainPc, healthPc, probe, lastErr, aux>>

\* data = await file.read()
VReadUpload ==
    /\ video.pc = "reading"
    /\ video' = [video EXCEPT !.pc = "writing", !.read = TRUE]
    /\ UNCHANGED <<relayVars, mainPc, healthPc, probe, lastErr, aux>>

\* NamedTemporaryFile(delete=False) creates the file, tmp.write fills it and
\* only then is temp_path assigned.
VWriteTemp ==
    /\ video.pc = "writing"
    /\ video' = [video EXCEPT !.pc = "opening", !.tempExists = TRUE, !.tempPath = TRUE]
    /\ UNCHANGED <<relayVars, mainPc, healthPc, probe, lastErr, aux>>

\* tmp.write raises (disk full): except Exception answers 500, and finally
\* finds no temp_path.
VWriteTempFails ==
    /\ video.pc = "writing"
    /\ video' = Respond([video EXCEPT !.tempExists = TRUE], 500, "Video detection failed")
    /\ UNCHANGED <<relayVars, mainPc, healthPc, probe, lastErr, aux>>

\* cv2.VideoCapture(video_path); isOpened()
VOpen ==
    /\ video.pc = "opening"
    /\ video' = IF video.openable
                THEN [video EXCEPT !.pc = "sampling", !.frameIndex = 0, !.sampled = <<>>]
                ELSE Respond(video, 400, "Could not open uploaded video")
    /\ UNCHANGED <<relayVars, mainPc, healthPc, probe, lastErr, aux>>

\* One turn of the loop with capture.read() returning a frame.
VReadFrame ==
    /\ video.pc = "sampling"
    /\ video.frameIndex < video.frames
    /\ LET take == ShouldSample(video.frameIndex, video.stride,
                                Len(video.sampled), video.maxFrames) IN
         video' = [video EXCEPT
                     !.sampled = IF take THEN Append(@, video.frameIndex) ELSE @,
                     !.predicts = IF take THEN @ + 1 ELSE @,
                     !.frameIndex = @ + 1]
    /\ UNCHANGED <<relayVars, mainPc, healthPc, probe, lastErr, aux>>

\* get_model() or model.predict raises on a frame that is to be sampled.
VDetectFails ==
    /\ video.pc = "sampling"
    /\ video.frameIndex < video.frames
    /\ ShouldSample(video.frameIndex, video.stride, Len(video.sampled), video.maxFrames)
    /\ video' = Respond(video, 500, "Video detection failed")
    /\ UNCHANGED <<relayVars, mainPc, healthPc, probe, lastErr, aux>>

\* capture.read() returns not ok: the payload is built, the analytics entry
\* is appended (a failed append is only logged), the payload is returned.
VFinish(logOk) ==
    /\ video.pc = "sampling"
    /\ video.frameIndex = video.frames
    /\ video' = Respond([video EXCEPT !.frameCount = video.frameIndex,
                                      !.sampledCount = Len(video.sampled),
                                      !.logged = IF logOk THEN @ + 1 ELSE @],
                        200, "")
    /\ UNCHANGED <<relayVars, mainPc, healthPc, probe, lastErr, aux>>

VideoNext ==
    \/ \E stride \in StrideValues, max_frames \in MaxFramesValues,
          frames \in FrameCounts, openable \in BOOLEAN :
          VRequest(stride, max_frames, frames, openable)
    \/ VValidate
    \/ VReadUpload
    \/ VWriteTemp
    \/ VWriteTempFails
    \/ VOpen
    \/ VReadFrame
    \/ VDetectFails
    \/ \E logOk \in BOOLEAN : VFinish(logOk)

VideoSpec == Init /\ [][VideoNext]_vars

VideoTypeOK ==
    /\ video.pc \in {"idle", "called", "reading", "writing", "opening",
                     "sampling", "responded"}
    /\ video.status \in {0, 200, 400, 500}
    /\ video.frameIndex \in 0..video.frames
    /\ video.pc = "responded" <=> video.status # 0

\* ---- LAN address helpers of the detection service ----
\* The addresses discovery may report, by their octets, and the port numbers
\* the service may listen on.
AddrPool ==
    {<<127, 0, 0, 1>>, <<169, 254, 10, 2>>, <<192, 168, 1, 15>>, <<10, 0, 0, 22>>,
     <<172, 16, 0, 1>>, <<172, 32, 0, 1>>, <<9, 0, 0, 1>>, <<100, 64, 0, 1>>}
Ports == {8000, 80}

Loopback == Text(<<127, 0, 0, 1>>)

\* The strings a list of addresses may hold: the addresses' texts and "".
IpTexts == {Text(a) : a \in AddrPool} \cup {<<>>}

RECURSIVE SeqsUpTo(_, _)
SeqsUpTo(S, n) ==
    IF n = 0 THEN {<<>>}
    ELSE LET shorter == SeqsUpTo(S, n - 1) IN
         shorter \cup {Append(q, x) : q \in shorter, x \in S}

IpLists == SeqsUpTo(IpTexts, MaxIps)

\* The values of the query parameter `ip`.
IpParams ==
    {NoIp, <<>>, <<" ">>, Text(<<9, 0, 0, 1>>) \o <<" ">>,
     Text(<<10, 0, 0, 22>>), Text(<<127, 0, 0, 1>>)}

\* sorted(S) of a set of str
RECURSIVE Sorted(_)
Sorted(S) ==
    IF S = {} THEN <<>>
    ELSE LET least == CHOOSE x \in S : \A y \in S \ {x} : StrLess(x, y) IN
         <<least>> \o Sorted(S \ {least})

\* ip.strip(), for the one kind of whitespace that occurs
RECURSIVE Strip(_)
Strip(a) ==
    IF a = <<>> THEN a
    ELSE IF Head(a) = " " THEN Strip(Tail(a))
    ELSE IF a[Len(a)] = " " THEN Strip(SubSeq(a, 1, Len(a) - 1))
    ELSE a

\* ip.split(".")
RECURSIVE Split(_)
Split(a) ==
    IF \A i \in 1..Len(a) : a[i] # "." THEN <<a>>
    ELSE LET k == CHOOSE i \in 1..Len(a) :
                      a[i] = "." /\ \A j \in 1..(i - 1) : a[j] # "." IN
         <<SubSeq(a, 1, k - 1)>> \o Split(SubSeq(a, k + 1, Len(a)))

\* int(text) of a string of decimal digits; IntFails is the ValueError.
IntFails(a) == a = <<>> \/ \E i \in 1..Len(a) : Ord(a[i]) \notin 48..57
RECURSIVE IntOf(_)
IntOf(a) == IF a = <<>> THEN 0
            ELSE 10 * IntOf(SubSeq(a, 1, Len(a) - 1)) + (Ord(a[Len(a)]) - 48)

KeepsLinkLocal(ip) == ip # <<>> /\ ~StartsWith(ip, <<"1", "2", "7", ".">>)

\* `ip and not ip.startswith("127.") and not ip.startswith("169.254.")`
Keeps(ip) ==
    /\ ip # <<>>
    /\ ~StartsWith(ip, <<"1", "2", "7", ".">>)
    /\ ~StartsWith(ip, <<"1", "6", "9", ".", "2", "5", "4", ".">>)

\* f"http://{ip}:{port}"
Url(ip, port) == <<"h", "t", "t", "p", ":", "/", "/">> \o ip \o <<":">> \o Str(port)

NetworkUrlsForIps(ips, port) ==
    LET cleaned == Sorted({ip \in Range(ips) : Keeps(ip)}) IN
    [i \in 1..Len(cleaned) |-> Url(cleaned[i], port)]

IsRfc1918IpByPrefix(ip) ==
    \/ StartsWith(ip, <<"1", "0">>)
    \/ StartsWith(ip, <<"1", "9", "2", ".", "1", "6", "8", ".">>)
    \/ StartsWith(ip, <<"1", "7", "2", ".">>)

IsRfc1918Ip(ip) ==
    IF StartsWith(ip, <<"1", "0", ".">>) \/ StartsWith(ip, <<"1", "9", "2", ".", "1", "6", "8", ".">>)
    THEN TRUE
    ELSE IF ~StartsWith(ip, <<"1", "7", "2", ".">>) THEN FALSE
    ELSE IF Len(Split(ip)) < 2 \/ IntFails(Split(ip)[2]) THEN FALSE
    ELSE 16 <= IntOf(Split(ip)[2]) /\ IntOf(Split(ip)[2]) <= 31

LanIpCandidates(discovered) ==
    LET ips == Sorted({ip \in Range(discovered) : Keeps(ip)}) IN
    IF ips = <<>> THEN <<Loopback>>
    ELSE LET preferred == Sorted({ip \in Range(ips) : IsRfc1918Ip(ip)})
             NotPreferred(ip) == ip \notin Range(preferred)
         IN  preferred \o SelectSeq(ips, NotPreferred)

\* _discover_local_ips() returns; tests replace it by any list.
NetDiscover(ips) ==
    /\ net.st = "idle"
    /\ net' = [net EXCEPT !.st = "discovered", !.discovered = ips,
                          !.candidates = LanIpCandidates(ips)]
    /\ UNCHANGED <<relayVars, mainPc, healthPc, probe, lastErr, video, script, twin>>

\* _log_network_access_urls(port)
LogNetworkAccessUrls(port) ==
    /\ net.st = "discovered"
    /\ net' = [net EXCEPT !.st = "done", !.op = "urls", !.port = port,
                          !.urls = NetworkUrlsForIps(net.discovered, port)]
    /\ UNCHANGED <<relayVars, mainPc, healthPc, probe, lastErr, video, script, twin>>

\* GET /webrtc/network
WebrtcNetwork ==
    /\ net.st = "discovered"
    /\ LET candidates == LanIpCandidates(net.discovered) IN
         net' = [net EXCEPT !.st = "done", !.op = "network",
                            !.ipCandidates = candidates,
                            !.selectedIp = candidates[1],
                            !.warning = (candidates = <<Loopback>>)]
    /\ UNCHANGED <<relayVars, mainPc, healthPc, probe, lastErr, video, script, twin>>

\* GET /webrtc/phone-publisher?ip=...
WebrtcPhonePublisher(ip) ==
    /\ net.st = "discovered"
    /\ LET found == LanIpCandidates(net.discovered)
           selected == IF ip # NoIp /\ ip # <<>> /\ Strip(ip) # <<>>
                       THEN Strip(ip) ELSE found[1]
           candidates == IF selected \notin Range(found)
                         THEN Sorted(Range(found) \cup {selected}) ELSE found
       IN  net' = [net EXCEPT !.st = "done", !.op = "phone", !.ipParam = ip,
                              !.ipCandidates = candidates,
                              !.selectedIp = selected,
                              !.warning = (candidates = <<Loopback>>)]
    /\ UNCHANGED <<relayVars, mainPc, healthPc, probe, lastErr, video, script, twin>>

NetNext ==
    \/ \E ips \in IpLists : NetDiscover(ips)
    \/ \E port \in Ports : LogNetworkAccessUrls(port)
    \/ WebrtcNetwork
    \/ \E ip \in IpParams : WebrtcPhonePublisher(ip)

NetSpec == Init /\ [][NetNext]_vars

\* ---- GET /webrtc/relay-info ----
\* The endpoint is a plain `def`: the framework runs each request on a thread
\* of its pool, so requests overlap, and a step below is what one request
\* does in one file-system call.  The file's content is "" (empty),
\* "source" (SIGNALING_RELAY_SOURCE) or "custom" (edited by the operator).
AnyBusy == \E r \in Req : script.pc[r] \notin {"idle", "done"}

\* A request arrives.
InfoRequest(r) ==
    /\ script.pc[r] \in {"idle", "done"}
    /\ script' = [script EXCEPT !.pc[r] = "called", !.resp[r] = NoResponse]
    /\ UNCHANGED <<relayVars, mainPc, healthPc, probe, lastErr, video, net, twin>>

\* _ensure_signaling_relay_script: mkdir, then `if not ....exists()`
EnsureCheck(r) ==
    /\ script.pc[r] = "called"
    /\ script' = [script EXCEPT !.pc[r] = IF script.exists THEN "ensured" ELSE "missing"]
    /\ UNCHANGED <<relayVars, mainPc, healthPc, probe, lastErr, video, net, twin>>

\* write_text opens the file for writing: created, or truncated.
WriteOpen(r) ==
    /\ script.pc[r] = "missing"
    /\ script' = [script EXCEPT !.pc[r] = "opened", !.exists = TRUE, !.content = ""]
    /\ UNCHANGED <<relayVars, mainPc, healthPc, probe, lastErr, video, net, twin>>

\* write_text writes SIGNALING_RELAY_SOURCE and closes.
WriteData(r) ==
    /\ script.pc[r] = "opened"
    /\ script' = [script EXCEPT !.pc[r] = "ensured", !.content = "source"]
    /\ UNCHANGED <<relayVars, mainPc, healthPc, probe, lastErr, video, net, twin>>

\* The response is built: relay_path.exists() and relay_path.read_text().
InfoAnswer(r) ==
    /\ script.pc[r] = "ensured"
    /\ script' = [script EXCEPT
                     !.pc[r] = "done",
                     !.resp[r] = IF script.exists
                                 THEN [status |-> 200, relayExists |-> TRUE,
                                       relayCode |-> script.content]
                                 ELSE [status |-> 500, relayExists |-> FALSE,
                                       relayCode |-> ""]]
    /\ UNCHANGED <<relayVars, mainPc, healthPc, probe, lastErr, video, net, twin>>

\* Between requests the operator edits the script, or removes it.
OperatorEdits ==
    /\ ~AnyBusy
    /\ script.exists
    /\ script' = [script EXCEPT !.content = "custom"]
    /\ UNCHANGED <<relayVars, mainPc, healthPc, probe, lastErr, video, net, twin>>

OperatorRemoves ==
    /\ ~AnyBusy
    /\ script.exists
    /\ script' = [script EXCEPT !.exists = FALSE, !.content = ""]
    /\ UNCHANGED <<relayVars, mainPc, healthPc, probe, lastErr, video, net, twin>>

ScriptNext ==
    \/ \E r \in Req : InfoRequest(r)
    \/ \E r \in Req : EnsureCheck(r)
    \/ \E r \in Req : WriteOpen(r)
    \/ \E r \in Req : WriteData(r)
    \/ \E r \in Req : InfoAnswer(r)
    \/ OperatorEdits
    \/ OperatorRemoves

ScriptSpec == Init /\ [][ScriptNext]_vars

\* ---- the embedded relay script next to the standalone relay ----
\* SIGNALING_RELAY_SOURCE has the standalone handler's loop, with
\* `try: await client.send(message) / except Exception: pass` for the
\* suppress block and with no except clause on the outer try.  Both relays
\* are fed the same events; each answers with its own code.
Variants == {"standalone", "embedded"}
Outcomes == {"ok"} \cup FaultClasses
Endings == {"close"} \cup FaultClasses

EmbeddedSwallowsClosureOnly(exc) == exc \in ClosureErrors

\* except Exception: pass
EmbeddedSwallows(exc) == exc \in ExceptionClasses

\* The embedded handler's try has only a finally clause.
EmbeddedCaught(exc) == FALSE

Swallows(v, exc) == IF v = "standalone" THEN Suppressed(exc) ELSE EmbeddedSwallows(exc)
Catches(v, exc) == IF v = "standalone" THEN Caught(exc) ELSE EmbeddedCaught(exc)

\* The handler of c is left with exception exc ("close": without one).
PlaneLeave(v, h, c, exc) ==
    [h EXCEPT !.clients = IF exc = "close" \/ ReachesFinally(exc)
                          THEN Discard(@, c).set ELSE @,
              !.pc[c] = "done",
              !.todo[c] = {},
              !.escaped = IF exc = "close" \/ Catches(v, exc) THEN @ ELSE @ \cup {c}]

\* A connection is accepted and its handler starts.
PlaneConnect(v, h, c) ==
    IF h.pc[c] # "connecting" THEN h
    ELSE [h EXCEPT !.clients = Register(@, c), !.pc[c] = "recv"]

\* `async for` yields a message of c: the snapshot is taken.
PlaneMessage(v, h, c) ==
    IF h.pc[c] # "recv" THEN h
    ELSE LET targets == Recipients(Snapshot(h.clients), c) IN
         [h EXCEPT !.sent[c] = @ + 1,
                   !.todo[c] = targets,
                   !.pc[c] = IF targets = {} THEN "recv" ELSE "fanout"]

\* The send of c's message to t returns ("ok") or raises.
PlaneDeliver(v, h, c, t, outcome) ==
    IF h.pc[c] # "fanout" \/ t \notin h.todo[c] THEN h
    ELSE LET tried == [h EXCEPT !.attempts = @ \cup {<<c, h.sent[c], t>>}] IN
         IF outcome = "ok" \/ Swallows(v, outcome)
         THEN [tried EXCEPT !.todo[c] = Rest(@, t),
                            !.pc[c] = IF Rest(h.todo[c], t) = {} THEN "recv" ELSE "fanout"]
         ELSE PlaneLeave(v, tried, c, outcome)

\* `async for` of c ends ("close") or raises.
PlaneDisconnect(v, h, c, ending) ==
    IF h.pc[c] # "recv" THEN h
    ELSE PlaneLeave(v, h, c, ending)

TwinConnect(c) ==
    /\ twin.std.pc[c] = "connecting" \/ twin.emb.pc[c] = "connecting"
    /\ \A d \in Conn : d < c => twin.std.pc[d] # "connecting"
    /\ twin' = [std |-> PlaneConnect("standalone", twin.std, c),
                emb |-> PlaneConnect("embedded", twin.emb, c)]
    /\ UNCHANGED <<relayVars, mainPc, healthPc, probe, lastErr, video, net, script>>

TwinMessage(c) ==
    /\ twin.std.pc[c] = "recv" \/ twin.emb.pc[c] = "recv"
    /\ SumOver(twin.std.sent, Conn) < MaxMsgs
    /\ twin' = [std |-> PlaneMessage("standalone", twin.std, c),
                emb |-> PlaneMessage("embedded", twin.emb, c)]
    /\ UNCHANGED <<relayVars, mainPc, healthPc, probe, lastErr, video, net, script>>

TwinDeliver(c, t, outcome) ==
    /\ \/ twin.std.pc[c] = "fanout" /\ t \in twin.std.todo[c]
       \/ twin.emb.pc[c] = "fanout" /\ t \in twin.emb.todo[c]
    /\ twin' = [std |-> PlaneDeliver("standalone", twin.std, c, t, outcome),
                emb |-> PlaneDeliver("embedded", twin.emb, c, t, outcome)]
    /\ UNCHANGED <<relayVars, mainPc, healthPc, probe, lastErr, video, net, script>>

TwinDisconnect(c, ending) ==
    /\ twin.std.pc[c] = "recv" \/ twin.emb.pc[c] = "recv"
    /\ twin' = [std |-> PlaneDisconnect("standalone", twin.std, c, ending),
                emb |-> PlaneDisconnect("embedded", twin.emb, c, ending)]
    /\ UNCHANGED <<relayVars, mainPc, healthPc, probe, lastErr, video, net, script>>

TwinNext ==
    \/ \E c \in Conn : TwinConnect(c)
    \/ \E c \in Conn : TwinMessage(c)
    \/ \E c, t \in Conn, outcome \in Outcomes : TwinDeliver(c, t, outcome)
    \/ \E c \in Conn, ending \in Endings : TwinDisconnect(c, ending)

TwinSpec == Init /\ [][TwinNext]_vars

\* The event loop runs every ready handler and the health thread is
\* scheduled.  A drained buffer wakes the waiting send for good, also when the
\* peer stalls again afterwards, hence strong fairness for SendOk.  Nothing
\* obliges a peer to read, to disconnect, or to miss a pong.
Fairness ==
    /\ \A c \in Conn : SF_vars(SendOk(c))
    /\ \A c \in Conn : WF_vars(SendFail(c))
    /\ \A c \in Conn : WF_vars(HandlerExit(c))
    /\ WF_vars(HealthAnswer)

FairSpec == Spec /\ Fairness

\* The health thread alone is scheduled fairly; nothing is assumed of the
\* event loop or of the peers.
HealthFairSpec == Spec /\ WF_vars(HealthAnswer)

TypeOK ==
    /\ clients \subseteq Conn
    /\ \A c \in Conn : pc[c] \in {"connecting", "recv", "send", "done"}
    /\ \A c \in Conn : transport[c] \in {"open", "closed"}
    /\ \A c \in Conn : (pc[c] = "send") <=> (cur[c] # None)

\* ======================= the claims =======================

\* A handler that has a broadcast in its history: fanning out or finished.
InBroadcast(s) == pc[s] \in {"recv", "send"} /\ sent[s] > 0
BroadcastDone(s) == pc[s] = "recv" /\ sent[s] > 0

\* C1 as stated: once the fan-out of a message of peer i is over, the message
\* has been delivered to exactly the peers registered when the snapshot was
\* taken, other than i.
C1_DeliveredToAllRegistered ==
    \A s \in Conn :
        BroadcastDone(s) => Delivered(CurMsg(s)) = snapAt[s] \ {s}

\* C1 as amended: no peer ever gets its own message; a message only reaches
\* peers registered at the snapshot; once the fan-out is over each of them
\* other than the sender either got the message or had its send raise, and
\* a send only raises for a peer whose connection is closed.
C1_DeliveredToRegisteredStillOpen ==
    /\ \A r \in Conn : \A i \in 1..Len(inbox[r]) : inbox[r][i][1] # r
    /\ \A s \in Conn :
        InBroadcast(s) =>
            /\ Delivered(CurMsg(s)) \subseteq snapAt[s] \ {s}
            /\ Delivered(CurMsg(s)) \cap failed[s] = {}
            /\ \A t \in failed[s] : ~IsOpen(t)
            /\ BroadcastDone(s) =>
                   Delivered(CurMsg(s)) \cup failed[s] = snapAt[s] \ {s}

\* A finished broadcast among three registered peers, one reached and one not.
C1_Witness ==
    \E s \in Conn :
        /\ BroadcastDone(s)
        /\ Cardinality(snapAt[s]) >= 3
        /\ Delivered(CurMsg(s)) # {}
        /\ failed[s] # {}

\* C2: a send that raises during a broadcast leaves the sender registered
\* and in its loop: what was still to be visited is still visited, and the
\* handler returns to waiting for its next message.
C2_FailureIsolated ==
    \A s \in Conn :
        failed[s] # {} =>
            /\ s \in clients
            /\ pc[s] \in {"recv", "send"}
            /\ Attempted(s) \cup remaining[s] = snapAt[s] \ {s}
            /\ pc[s] = "recv" => remaining[s] = {}

\* After a failed send the handler is sending to the next recipient.
C2_Witness ==
    \E s \in Conn :
        /\ failed[s] # {}
        /\ pc[s] = "send"
        /\ IsOpen(cur[s])
        /\ s \in clients

\* C3: the recipients a broadcast visits are the registry membership at the
\* snapshot minus the sender, whatever registers or deregisters meanwhile;
\* a connection registered after the snapshot never gets the message.
C3_RecipientsAreSnapshot ==
    \A s \in Conn :
        InBroadcast(s) =>
            /\ Attempted(s) \subseteq snapAt[s] \ {s}
            /\ BroadcastDone(s) => Attempted(s) = snapAt[s] \ {s}
            /\ \A t \in Conn \ snapAt[s] : CurMsg(s) \notin Range(inbox[t])

\* A finished broadcast during which a snapshot member deregistered and a
\* new connection registered.
C3_Witness ==
    \E s \in Conn :
        /\ BroadcastDone(s)
        /\ snapAt[s] \ clients # {}
        /\ clients \ snapAt[s] # {}
        /\ Attempted(s) # {}

\* C4 as stated: a broadcast is never stalled by one recipient: a handler
\* that is sending eventually leaves the fan-out and waits for its next
\* inbound message (or ends).
C4_BroadcastNeverStalls ==
    \A s \in Conn : (pc[s] = "send") ~> (pc[s] \in {"recv", "done"})

\* C5: the registry holds exactly the connections whose handshake completed
\* and that are not yet Closed (it is a set, so an identity is in it at most
\* once).
C5_RegistryIsLiveConnections ==
    /\ \A c \in Conn : (c \in clients) <=> (State(c) \in {"Open", "Closing"})
    /\ Cardinality(clients) =
           Cardinality({c \in Conn : pc[c] \notin {"connecting", "done"}})

\* One connection Open, one Closing and still registered, one Closed.
C5_Witness ==
    /\ \E c \in Conn : State(c) = "Open" /\ c \in clients
    /\ \E c \in Conn : State(c) = "Closing" /\ c \in clients
    /\ \E c \in Conn : State(c) = "Closed" /\ c \notin clients

DeregisterTwice(c) ==
    LET once  == Discard(clients, c)
        twice == Discard(once.set, c)
    IN  /\ ~once.raised
        /\ ~twice.raised
        /\ twice.set = once.set
        /\ \A d \in Conn \ {c} : (d \in twice.set) <=> (d \in clients)

RemovedOnce(c) ==
    (c \in clients /\ c \notin clients') =>
        /\ pc[c] # "done"
        /\ pc'[c] = "done"
        /\ clients' = clients \ {c}

\* C6: deregistering a connection a second time never raises and changes
\* nothing, in every registry the relay reaches and for every connection,
\* removed already or not; and whatever closes a connection, it leaves the
\* registry in one step of its own handler, which touches no other member.
C6_DeregisterIdempotent ==
    /\ [](\A c \in Conn : DeregisterTwice(c))
    /\ [][\A c \in Conn : RemovedOnce(c)]_vars

\* A connection already removed, next to connections still registered.
C6_Witness ==
    \E c \in Conn :
        /\ pc[c] = "done"
        /\ c \notin clients
        /\ clients # {}
        /\ Discard(clients, c).set = clients

\* C7 as stated: a registered connection whose transport has closed is
\* eventually removed from the registry.
C7_ClosedEventuallyRemoved ==
    \A c \in Conn : (c \in clients /\ ~IsOpen(c)) ~> (c \notin clients)

Blocked(s) == pc[s] = "send" /\ IsOpen(cur[s]) /\ stalled[cur[s]]

\* C8: while the process lives, a probe the health listener has accepted is
\* eventually answered, whatever the relay's handlers are doing.
C8_ProbeEventuallyAnswered ==
    (probe.st = "pending") ~> (probe.st = "answered" \/ ~ProcessAlive)

\* A probe answered ok with every connection registered and a handler
\* blocked in a send.
C8_Witness ==
    /\ probe.st = "answered"
    /\ probe.ok
    /\ clients = Conn
    /\ \E s \in Conn : Blocked(s)

\* C9: a GET for the health route is answered 200 with ok = true, a GET for
\* anything else 404 with ok = false and error = not_found.
C9_HealthRouting ==
    probe.st = "answered" =>
        IF probe.path = HealthRoute
        THEN probe.status = 200 /\ probe.ok /\ probe.error = ""
        ELSE probe.status = 404 /\ ~probe.ok /\ probe.error = "not_found"

\* A request for another route has been answered.
C9_Witness ==
    /\ probe.st = "answered"
    /\ probe.path # HealthRoute
    /\ probe.status = 404

\* C10 as stated: when the relay has accepted a connection, the health
\* listener is able to answer probes.
C10_HealthReadyBeforeFirstAccept ==
    (\E c \in Conn : pc[c] # "connecting") => healthPc = "serving"

\* C11 as stated: when the health listener or the relay listener failed to
\* bind, the process has aborted and no connection is ever accepted.
C11_StartupFailureIsFatal ==
    /\ healthPc = "dead" => ~ProcessAlive
    /\ (healthPc = "dead" \/ mainPc = "aborted") =>
           \A c \in Conn : pc[c] = "connecting"

Rank(st) ==
    CASE st = "Connecting" -> 0
      [] st = "Open" -> 1
      [] st = "Closing" -> 2
      [] st = "Closed" -> 3

\* The handlers that end, and the connections that leave the registry, in a
\* step.
Ended(c) == pc[c] # "done" /\ pc'[c] = "done"
Removed(c) == c \in clients /\ c \notin clients'

\* C12: an exception in one connection's handler or transport stays in that
\* connection.  A step ends at most one handler and removes at most one
\* connection; the handler that ends is the one of the connection that is
\* removed, and it ends because its own connection is closed or because its
\* own receive raised; no step of a handler, and no exception, changes the
\* state of the process or of the health server.
C12_FailureContained ==
    [][/\ \A c \in Conn :
             /\ Removed(c) => Ended(c)
             /\ Ended(c) =>
                    /\ \A d \in Conn \ {c} : ~Ended(d) /\ ~Removed(d)
                    /\ \/ ~IsOpen(c)
                       \/ /\ lastErr' # lastErr
                          /\ lastErr'.conn = c
                          /\ lastErr'.at = "recv"
       /\ (lastErr' # lastErr \/ pc' # pc) =>
             /\ mainPc' = mainPc
             /\ healthPc' = healthPc]_vars

C12_Witness ==
    \E c, d \in Conn :
        /\ c # d
        /\ lastErr.conn = c /\ lastErr.fate = "propagated"
        /\ pc[c] = "done" /\ c \notin clients
        /\ d \in clients /\ pc[d] = "send" /\ IsOpen(d)
        /\ mainPc = "serving" /\ healthPc = "serving"

\* C13 as stated: an error is either a transport closure, which is dealt with
\* in the handler and at most deregisters, or anything else, which is not
\* swallowed: it leaves the handler, whose task ends with it.
C13_UnexpectedErrorsPropagate ==
    lastErr # NoErr =>
        IF lastErr.exc \in ClosureErrors
        THEN lastErr.fate \in {"caught", "suppressed"}
        ELSE lastErr.fate = "propagated" /\ pc[lastErr.conn] = "done"

\* C14: whichever way a handler is left (the peer's close, a transport
\* error, or an exception nobody expected), its connection is deregistered,
\* in the very step that ends the handler, and only that connection.
C14_EveryExitDeregisters ==
    /\ [](\A c \in Conn : pc[c] = "done" => c \notin clients)
    /\ [][\A c \in Conn :
             Ended(c) => (c \in clients /\ clients' = clients \ {c})]_vars

C14_Witness ==
    \E c, d \in Conn :
        /\ c # d
        /\ pc[c] = "done" /\ pc[d] = "done"
        /\ lastErr.conn = c /\ lastErr.at = "recv" /\ lastErr.fate = "propagated"
        /\ IsOpen(d) = FALSE /\ sent[d] > 0
        /\ clients = Conn \ {c, d}
        /\ clients # {}

\* C15: a connection's lifecycle never moves backwards along Connecting,
\* Open, Closing, Closed; a Closed connection stays Closed and is never in
\* the registry again.
C15_ClosedIsTerminal ==
    [][\A c \in Conn :
          /\ Rank(State(c)') >= Rank(State(c))
          /\ State(c) = "Closed" => (State(c)' = "Closed" /\ c \notin clients')]_vars

\* A connection is Closed while a connection accepted with it is still Open.
C15_Witness ==
    \E c, d \in Conn :
        /\ State(c) = "Closed"
        /\ c \notin clients
        /\ State(d) = "Open"
        /\ sent[c] > 0

\* C16: in what the relay has written to a connection, the messages of one
\* sender appear in the order that sender sent them.
C16_SenderOrderPreserved ==
    \A r \in Conn : \A i, j \in 1..Len(inbox[r]) :
        (i < j /\ inbox[r][i][1] = inbox[r][j][1]) =>
            inbox[r][i][2] < inbox[r][j][2]

\* Two messages of one sender have reached the same recipient.
C16_Witness ==
    \E r, s \in Conn :
        /\ <<s, 1>> \in Range(inbox[r])
        /\ <<s, 2>> \in Range(inbox[r])

\* C17: everything the relay has written to a connection is a message that
\* another connection sent, unchanged; nothing else is ever written, also
\* after a peer failed or left.
C17_ForwardedVerbatim ==
    \A r \in Conn : \A i \in 1..Len(inbox[r]) :
        /\ inbox[r][i][1] \in Conn \ {r}
        /\ inbox[r][i][2] \in 1..sent[inbox[r][i][1]]

\* A connection has ended and a send to a closed peer has failed in a
\* broadcast that reached another peer.
C17_Witness ==
    \E r, s, d \in Conn :
        /\ pc[d] = "done"
        /\ failed[s] # {}
        /\ CurMsg(s) \in Range(inbox[r])
        /\ Len(inbox[r]) = 1

\* C18: a step of the health plane changes nothing of the relay, and the
\* answer to a probe is decided by its request path alone.
C18_ProbeHasNoEffect ==
    [][probe' # probe =>
          /\ UNCHANGED relayVars
          /\ probe'.st = "answered" =>
                 /\ probe'.ok = (probe.path = HealthRoute)
                 /\ probe'.status = (IF probe.path = HealthRoute THEN 200 ELSE 404)]_vars

\* The health route has been answered ok with connections registered and
\* messages relayed.
C18_Witness ==
    /\ probe.st = "answered"
    /\ probe.path = HealthRoute
    /\ probe.ok
    /\ clients # {}
    /\ \E r \in Conn : inbox[r] # <<>>

\* The samples the contract promises: the first min(max_frames,
\* ceil(F / stride)) multiples of stride, in increasing order.
CeilDiv(a, b) == (a + b - 1) \div b
Min(a, b) == IF a <= b THEN a ELSE b
ExpectedSamples(F, stride, max_frames) ==
    [i \in 1..Min(max_frames, CeilDiv(F, stride)) |-> (i - 1) * stride]

\* C19: a video of F frames answered with 200 was sampled at exactly the
\* first min(max_frames, ceil(F / stride)) multiples of stride, in order;
\* frame_count is F and sampled_count is the number of samples, each of which
\* cost one detection.
C19_SamplingIsFirstMultiplesOfStride ==
    (video.pc = "responded" /\ video.status = 200) =>
        /\ video.stride >= 1 /\ video.maxFrames >= 1
        /\ video.frameCount = video.frames
        /\ video.sampled = ExpectedSamples(video.frames, video.stride, video.maxFrames)
        /\ video.sampledCount = Len(video.sampled)
        /\ video.predicts = video.sampledCount

\* The tested request (4 frames, stride 2, max_frames 3: frames 0 and 2),
\* and one where max_frames cuts the sampling short.
C19_Witness ==
    /\ video.pc = "responded" /\ video.status = 200
    /\ \/ /\ video.frames = 4 /\ video.stride = 2 /\ video.maxFrames = 3
          /\ video.sampled = <<0, 2>> /\ video.frameCount = 4
       \/ /\ video.frames = 5 /\ video.stride = 2 /\ video.maxFrames = 2
          /\ video.sampled = <<0, 2>> /\ video.frameCount = 5

\* A rejected request has touched nothing.
Untouched ==
    /\ ~video.read
    /\ ~video.tempExists
    /\ video.predicts = 0
    /\ video.logged = 0

\* C20 as stated: stride below 1 is answered 400 'stride must be >= 1',
\* max_frames below 1 is answered 400 'max_frames must be >= 1', and the
\* rejected request has touched nothing.
C20_RejectsEachLimit ==
    video.pc = "responded" =>
        /\ video.stride < 1 =>
              /\ video.status = 400 /\ video.error = "stride must be >= 1"
              /\ Untouched
        /\ video.maxFrames < 1 =>
              /\ video.status = 400 /\ video.error = "max_frames must be >= 1"
              /\ Untouched

\* C20 as amended: the stride check comes first.  stride below 1 is answered
\* 400 'stride must be >= 1' whatever max_frames is; max_frames below 1 is
\* answered 400, with 'max_frames must be >= 1' when stride is at least 1;
\* either way the rejected request has touched nothing, and a request within
\* both limits is never answered with one of the two errors.
C20_RejectsStrideThenMaxFrames ==
    video.pc = "responded" =>
        /\ video.stride < 1 =>
              /\ video.status = 400 /\ video.error = "stride must be >= 1"
              /\ Untouched
        /\ video.maxFrames < 1 =>
              /\ video.status = 400
              /\ video.stride >= 1 => video.error = "max_frames must be >= 1"
              /\ Untouched
        /\ (video.stride >= 1 /\ video.maxFrames >= 1) =>
              video.error \notin {"stride must be >= 1", "max_frames must be >= 1"}

C20_Witness ==
    /\ video.pc = "responded" /\ video.status = 400
    /\ video.stride < 1 /\ video.maxFrames < 1
    /\ video.error = "stride must be >= 1"
    /\ video.frames > 0 /\ video.openable
    /\ Untouched

\* The targets a fan-out still has in hand: the one of the suspended send
\* and the ones the iterator has not yielded yet.
InHand(s) == (IF pc[s] = "send" THEN {cur[s]} ELSE {}) \cup remaining[s]

\* C24: a broadcast never changes the registry.  No step of a fan-out (the
\* receipt of a message, a delivery, a failed delivery) changes `clients`; a
\* connection enters the registry only when its own handler starts and
\* leaves it only when its own handler ends; and every broadcast targets all
\* the members other than the sender, the dead ones included.
C24_BroadcastLeavesRegistry ==
    [][/\ (sent' # sent \/ inbox' # inbox \/
           \E s \in Conn : pc[s] = "send" /\ (pc'[s] # "send" \/ cur'[s] # cur[s]))
             => clients' = clients
       /\ \A c \in clients' \ clients : pc[c] = "connecting" /\ pc'[c] = "recv"
       /\ \A c \in clients \ clients' : pc[c] # "done" /\ pc'[c] = "done"
       /\ \A s \in Conn : sent'[s] # sent[s] => InHand(s)' = clients \ {s}]_vars

\* The delivery to t failed in the broadcast of s; t is still a member, its
\* handler has not ended, and the broadcast of u, taken after the failure,
\* has t as its target.
C24_Witness ==
    \E s, t, u \in Conn :
        /\ s # u
        /\ t \in failed[s] /\ pc[s] = "recv"
        /\ ~IsOpen(t) /\ t \in clients /\ pc[t] # "done"
        /\ pc[u] = "send" /\ cur[u] = t /\ sent[u] = 1 /\ sent[s] = 1

\* C25: a message is attempted at most once per recipient.  No peer has the
\* same message twice; a recipient the relay has written the message to is
\* not one whose send raised; and the targets a fan-out has in hand are not
\* among those it has already attempted.
C25_AtMostOneAttempt ==
    /\ \A r \in Conn : \A i, j \in 1..Len(inbox[r]) :
           i # j => inbox[r][i] # inbox[r][j]
    /\ \A s \in Conn :
           pc[s] \in {"recv", "send"} /\ sent[s] > 0 =>
               /\ Delivered(CurMsg(s)) \cap failed[s] = {}
               /\ InHand(s) \cap (Delivered(CurMsg(s)) \cup failed[s]) = {}
               /\ pc[s] = "send" => cur[s] \notin remaining[s]

\* Two broadcasts in progress at once, one of them half done, and the
\* registry no longer what it was when that one's snapshot was taken.
C25_Witness ==
    \E s, u \in Conn :
        /\ s # u
        /\ pc[s] = "send" /\ pc[u] = "send"
        /\ Delivered(CurMsg(s)) \cup failed[s] # {}
        /\ clients # snapAt[s]

\* C27 as stated: once the upload has been read, the temp file of the
\* request is gone when the response is returned, whatever the exit path.
C27_NoTempFileLeftBehind ==
    (video.pc = "responded" /\ video.read) => ~video.tempExists

\* ---- addresses, as the contract speaks of them ----
\* The address a text of the pool denotes, and the classes of addresses by
\* their octets.
AddrOf(t) == CHOOSE a \in AddrPool : Text(a) = t
IsLoopbackAddr(a) == a[1] = 127
IsLinkLocalAddr(a) == a[1] = 169 /\ a[2] = 254
IsPrivateAddr(a) ==
    \/ a[1] = 10
    \/ a[1] = 172 /\ a[2] >= 16 /\ a[2] <= 31
    \/ a[1] = 192 /\ a[2] = 168

\* The texts of a list that are addresses other than loopback and link-local
\* ones.
UsableIn(ips) ==
    {t \in Range(ips) :
        t # <<>> /\ ~IsLoopbackAddr(AddrOf(t)) /\ ~IsLinkLocalAddr(AddrOf(t))}

NoDuplicates(q) == \A i, j \in 1..Len(q) : i # j => q[i] # q[j]

\* The request left the choice of the address to the service.
DefaultIp == net.ipParam = NoIp \/ Strip(net.ipParam) = <<>>

UrlIp(u, port) == SubSeq(u, 8, Len(u) - Len(Str(port)) - 1)

\* C22: the URLs are one per distinct address of the input that is not
\* empty, loopback or link-local, each of the form http://<address>:<port>,
\* in ascending order of the address strings, and nothing else.
C22_NetworkUrls ==
    net.op = "urls" =>
        LET usable == UsableIn(net.discovered) IN
        /\ Len(net.urls) = Cardinality(usable)
        /\ \A t \in usable : \E i \in 1..Len(net.urls) : net.urls[i] = Url(t, net.port)
        /\ \A i \in 1..Len(net.urls) : UrlIp(net.urls[i], net.port) \in usable
        /\ \A i, j \in 1..Len(net.urls) :
               i < j => StrLess(UrlIp(net.urls[i], net.port), UrlIp(net.urls[j], net.port))

\* An address given twice, out of order, next to a link-local one.
C22_Witness ==
    /\ net.op = "urls" /\ net.port = 8000
    /\ net.discovered = <<Text(<<192, 168, 1, 15>>), Text(<<169, 254, 10, 2>>), Text(<<192, 168, 1, 15>>)>>
    /\ net.urls = <<Url(Text(<<192, 168, 1, 15>>), 8000)>>
    /\ Len(net.urls[1]) = 24

\* C23 as stated: a request that is answered finds the file there and
\* reports relayExists = true and the content the file has; a request never
\* changes a file that exists, other than the one it is creating itself (so
\* a repeated request changes nothing).
C23_RelayInfoIdempotent ==
    [][\A r \in Req :
          /\ (script.pc[r] # "done" /\ script'.pc[r] = "done") =>
                /\ script'.exists
                /\ script'.resp[r].status = 200
                /\ script'.resp[r].relayExists
                /\ script'.resp[r].relayCode = script'.content
          /\ (script'.pc[r] # script.pc[r] /\ script.exists
                /\ script.pc[r] # "opened") =>
                /\ script'.exists
                /\ script'.content = script.content]_vars

\* C26: fed the same connect, message, delivery and disconnect events, the
\* standalone relay and the embedded script have the same registry and have
\* made the same delivery attempts for every message, after every event.
C26_SameMessagePlane ==
    /\ twin.std.clients = twin.emb.clients
    /\ twin.std.attempts = twin.emb.attempts

\* A send has raised something that is not a closure and a receive has
\* raised a closure: the handlers' ends differ (the embedded script lets the
\* closure reach the library), the message plane does not.
C26_Witness ==
    /\ twin.std.escaped # twin.emb.escaped
    /\ twin.emb.attempts # {}
    /\ \E c \in Conn : twin.emb.pc[c] = "done" /\ twin.emb.sent[c] > 0
    /\ \E c \in Conn : twin.emb.pc[c] = "fanout"
    /\ Cardinality(twin.emb.clients) = 2

====
